---------------------------- MODULE Spec2Model ----------------------------
(***************************************************************************)
(* A model of scripts/rink_status_scraper.py (class RinkScraper): the      *)
(* address cache, the text clean-up done by get_address, the OSM -> Google *)
(* provider chain, the XML snapshot written by create_xml and read back by *)
(* load_existing_addresses, and the two passes of scrape_rinks.            *)
(*                                                                         *)
(* Python values.  A str is a sequence of one-character strings.  The      *)
(* characters outside ASCII are written by their code point: "xC3" is      *)
(* U+00C3, "xA9" is U+00A9, ...  None is the one-element sequence          *)
(* <<"None">> and a number is <<"num">> followed by the characters of its  *)
(* decimal rendering; neither can be mistaken for a str, whose elements    *)
(* are single characters.  A dict with string keys is a function.          *)
(***************************************************************************)
EXTENDS Integers, Sequences, FiniteSets, TLC

VARIABLES
    existing_addresses,       \* self.existing_addresses: name -> address record
    GOOGLE_API_KEY,           \* self.GOOGLE_API_KEY: a str, or None
    call,                     \* the arguments of the most recent get_address / query_google_maps
    requests,                 \* the outbound requests that call issued, in order
    ret,                      \* what that call returned
    text,                     \* SpecNorm: the strings being cleaned, raw / once / twice
    rinks_data,               \* create_xml's argument, scrape_rinks' rinks_data
    xml_file,                 \* the contents of montreal_rinks.xml
    soup,                     \* scrape_rinks: the h2 / table elements of the listing
    rinks_needing_addresses,  \* scrape_rinks: the (name, borough) pairs still to look up
    lookups,                  \* scrape_rinks: the get_address calls of the second pass
    pc                        \* the position of the running script

vars == <<existing_addresses, GOOGLE_API_KEY, call, requests, ret, text,
          rinks_data, xml_file, soup, rinks_needing_addresses, lookups, pc>>

---------------------------------------------------------------------------
(* Python values *)

None == <<"None">>

Num(digits) == <<"num">> \o digits

IsNum(v) == v # <<>> /\ v[1] = "num"

\* bool(v) of a str, a number's rendering or None
Truthy(v) == v # None /\ v # <<>>

\* str(v): a str is returned as it is, a number by its decimal rendering
PyStr(v) ==
    IF v = None THEN <<"N", "o", "n", "e">>
    ELSE IF IsNum(v) THEN Tail(v)
    ELSE v

\* d.get(k, default)
DictGet(d, k, default) == IF k \in DOMAIN d THEN d[k] ELSE default

\* d[k] = v
DictSet(d, k, v) == [x \in DOMAIN d \cup {k} |-> IF x = k THEN v ELSE d[x]]

EmptyDict == [x \in {} |-> <<>>]

RECURSIVE Replace(_, _, _)
\* s.replace(old, new) for a non-empty old: leftmost, non-overlapping
Replace(s, old, new) ==
    IF Len(s) < Len(old) THEN s
    ELSE IF SubSeq(s, 1, Len(old)) = old
         THEN new \o Replace(SubSeq(s, Len(old) + 1, Len(s)), old, new)
         ELSE <<s[1]>> \o Replace(Tail(s), old, new)

RECURSIVE Concat(_)
\* "".join(parts)
Concat(parts) == IF parts = <<>> THEN <<>> ELSE Head(parts) \o Concat(Tail(parts))

---------------------------------------------------------------------------
(* The clean-up of get_address *)

\* the dict display of get_address, entry by entry as it is written
replacements_display ==
    << <<<<"xC3", "xA9">>, <<"xE9">>>>,
       <<<<"xC3", "xA8">>, <<"xE8">>>>,
       <<<<"xC3", "xA2">>, <<"xE2">>>>,
       <<<<"xC3", "xAE">>, <<"xEE">>>>,
       <<<<"xC3", "xB4">>, <<"xF4">>>>,
       <<<<"xC3", "xBB">>, <<"xFB">>>>,
       <<<<"xC3", "xAB">>, <<"xEB">>>>,
       <<<<"xC3", "xA7">>, <<"xE7">>>>,
       <<<<"xE9", "xB4">>, <<"xE9">>>>,
       <<<<"xE9", "xA2">>, <<"xE2">>>>,
       <<<<"xE9", "xA9">>, <<"xE9">>>>,
       <<<<"xE9", "xA8">>, <<"xE8">>>>,
       <<<<"xE9", "xAE">>, <<"xEE">>>>,
       <<<<"xE9", "xB4">>, <<"xF4">>>>,
       <<<<"xE9", "xAB">>, <<"xEB">>>>,
       <<<<"xE9", "xA7">>, <<"xE7">>>> >>

\* The items of the dict a display builds: a key keeps the place of its
\* first entry and takes the value of its last one.
DictItems(display) ==
    LET first(i) == \A j \in 1..(i - 1) : display[j][1] # display[i][1]
        last(k)  == CHOOSE j \in 1..Len(display) :
                        /\ display[j][1] = k
                        /\ \A m \in (j + 1)..Len(display) : display[m][1] # k
        keep     == {i \in 1..Len(display) : first(i)}
        nth[n \in 1..Cardinality(keep)] ==
            CHOOSE i \in keep : Cardinality({j \in keep : j < i}) = n - 1
    IN  [n \in 1..Cardinality(keep) |->
            <<display[nth[n]][1], display[last(display[nth[n]][1])][2]>>]

replacements == DictItems(replacements_display)

RECURSIVE ApplyReplacements(_, _)
\* for wrong, right in replacements.items(): s = s.replace(wrong, right)
ApplyReplacements(s, items) ==
    IF items = <<>> THEN s
    ELSE ApplyReplacements(Replace(s, Head(items)[1], Head(items)[2]), Tail(items))

ParcToken == <<"P", "a", "r", "c", " ">>

\* rink_name after lines 128-133
CleanName(rink_name) == Replace(ApplyReplacements(rink_name, replacements), ParcToken, <<>>)

\* borough after lines 128-130
CleanBorough(borough) == ApplyReplacements(borough, replacements)

---------------------------------------------------------------------------
(* Address records and queries *)

\* {"display_name": "", "lat": "", "lon": "", "borough": ""}
EmptyAddress == [display_name |-> <<>>, lat |-> <<>>, lon |-> <<>>, borough |-> <<>>]

RegionSuffix == <<",", " ", "M", "o", "n", "t", "r", "e", "a", "l", ",", " ", "Q", "C">>

\* f"Parc {rink_name}, {borough}, Montreal, QC" with the cleaned strings
OsmQuery(rink_name, borough) ==
    Concat(<<ParcToken, rink_name, <<",", " ">>, borough, RegionSuffix>>)

\* the variants with the bare one first
GoogleQueriesBareFirst(rink_name, borough) ==
    << Concat(<<rink_name, RegionSuffix>>),
       Concat(<<ParcToken, rink_name, <<",", " ">>, borough, RegionSuffix>>),
       Concat(<<rink_name, <<",", " ">>, borough, RegionSuffix>>) >>

\* the list queries of query_google_maps
GoogleQueries(rink_name, borough) ==
    << Concat(<<ParcToken, rink_name, <<",", " ">>, borough, RegionSuffix>>),
       Concat(<<rink_name, <<",", " ">>, borough, RegionSuffix>>),
       Concat(<<rink_name, RegionSuffix>>) >>

---------------------------------------------------------------------------
(* What the providers may answer *)

\* A response is [kind |-> "raise"] when requests.get, raise_for_status or
\* json() raised, else [kind |-> "json", ...] with the parsed body.

\* OSM: the body is a list of objects, or an object (results[0] raises KeyError)
OsmRaised(response) == response.kind = "raise" \/ response.body = "object"

\* if results:
OsmHasResults(response) == ~OsmRaised(response) /\ response.items # <<>>

\* address_data of lines 158-163
OsmAddressData(item) ==
    [display_name |-> DictGet(item, "display_name", <<>>),
     lat          |-> DictGet(item, "lat", <<>>),
     lon          |-> DictGet(item, "lon", <<>>),
     borough      |-> DictGet(DictGet(item, "address", EmptyDict), "borough", <<>>)]

\* the denial looked for under another status
GoogleDeniedOtherStatus(response) ==
    response.kind = "json" /\ response.status = "OVER_QUERY_LIMIT"

\* results.get("status") == "REQUEST_DENIED"
GoogleDenied(response) == response.kind = "json" /\ response.status = "REQUEST_DENIED"

\* if results.get("results"):
GoogleHasResults(response) ==
    response.kind = "json" /\ ~GoogleDenied(response) /\ response.results # <<>>

\* a KeyError while address_data is built from results["results"][0]
GoogleKeyError(result) ==
    ~({"geometry", "formatted_address", "address_components"} \subseteq DOMAIN result)

\* one variant's request returns address_data
GoogleFound(response) ==
    GoogleHasResults(response) /\ ~GoogleKeyError(response.results[1])

\* next((c["long_name"] for c in components if "sublocality" in c["types"]), "")
FirstSublocality(components) ==
    LET hits == {i \in 1..Len(components) : "sublocality" \in components[i].types}
    IN  IF hits = {} THEN <<>>
        ELSE components[CHOOSE i \in hits : \A j \in hits : i <= j].long_name

\* address_data of lines 77-88
GoogleAddressData(result) ==
    [display_name |-> result.formatted_address,
     lat          |-> PyStr(result.geometry.location.lat),
     lon          |-> PyStr(result.geometry.location.lng),
     borough      |-> FirstSublocality(result.address_components)]

---------------------------------------------------------------------------
(* query_google_maps and get_address as functions of the providers' answers *)

Request(provider, query, response) ==
    [provider |-> provider, query |-> query, response |-> response]

RECURSIVE GoogleLoop(_, _, _, _)
\* for query in queries: ... from variant i on, `sent` being the requests so far
GoogleLoop(queries, responses, i, sent) ==
    IF i > Len(queries)
    THEN [ret |-> EmptyAddress, requests |-> sent]
    ELSE LET now == Append(sent, Request("google", queries[i], responses[i]))
         IN  IF responses[i].kind = "raise" THEN GoogleLoop(queries, responses, i + 1, now)
             ELSE IF GoogleDenied(responses[i]) THEN [ret |-> EmptyAddress, requests |-> now]
             ELSE IF GoogleHasResults(responses[i])
                  THEN IF GoogleKeyError(responses[i].results[1])
                       THEN GoogleLoop(queries, responses, i + 1, now)
                       ELSE [ret |-> GoogleAddressData(responses[i].results[1]),
                             requests |-> now]
             ELSE GoogleLoop(queries, responses, i + 1, now)

\* query_google_maps without its first three lines
QueryGoogleMapsUnguarded(key, rink_name, borough, responses) ==
    GoogleLoop(GoogleQueries(rink_name, borough), responses, 1, <<>>)

\* query_google_maps(rink_name, borough): what it returns and what it sends
QueryGoogleMaps(key, rink_name, borough, responses) ==
    IF ~Truthy(key)
    THEN [ret |-> EmptyAddress, requests |-> <<>>]
    ELSE GoogleLoop(GoogleQueries(rink_name, borough), responses, 1, <<>>)

\* get_address without its cache check: every call goes to the providers
CacheHitNever(cache, rink_name) == rink_name \in DOMAIN cache /\ FALSE

\* rink_name in self.existing_addresses (line 101)
CacheHit(cache, rink_name) == rink_name \in DOMAIN cache

\* the key get_address stores a primary result under (line 169)
StoreKey(rink_name) == CleanName(rink_name)

\* the primary's exception left uncaught
OsmExceptMissing(first, fallback, cache) ==
    [ret |-> [exception |-> "Exception"], requests |-> first, cache |-> cache]

\* except Exception as e: ... return self.query_google_maps(rink_name, borough)
OsmExcept(first, fallback, cache) ==
    [ret |-> fallback.ret, requests |-> first \o fallback.requests, cache |-> cache]

\* get_address(rink_name, borough): what it returns, what it sends and the
\* cache it leaves
GetAddressResult(cache, key, rink_name, borough, osm, google) ==
    IF CacheHit(cache, rink_name)
    THEN [ret |-> cache[rink_name], requests |-> <<>>, cache |-> cache]
    ELSE LET name  == CleanName(rink_name)
             boro  == CleanBorough(borough)
             first == <<Request("osm", OsmQuery(name, boro), osm)>>
             fallback == QueryGoogleMaps(key, name, boro, google)
         IN  IF OsmRaised(osm)
             THEN OsmExcept(first, fallback, cache)
             ELSE IF osm.items # <<>>
             THEN [ret      |-> OsmAddressData(osm.items[1]),
                   requests |-> first,
                   cache    |-> DictSet(cache, StoreKey(rink_name),
                                        OsmAddressData(osm.items[1]))]
             ELSE [ret      |-> fallback.ret,
                   requests |-> first \o fallback.requests,
                   cache    |-> cache]

---------------------------------------------------------------------------
(* The inputs the model draws from *)

NameA == <<"A">>

NameParcA == ParcToken \o NameA

\* "xC3 xA9 A": "xE9 A" mis-encoded
NameMojibake == <<"xC3", "xA9", "A">>

RinkNames == {NameA, NameParcA, NameMojibake}

\* "V" and the mis-encoded "xC3 xA9" (U+00E9 read as Latin-1)
Boroughs == {<<"V">>, <<"xC3", "xA9">>}

ApiKeys == {None, <<>>, <<"k">>}

\* a record as load_existing_addresses builds it from a snapshot
CachedAddress ==
    [display_name |-> <<"c">>, lat |-> <<"4">>, lon |-> <<"7">>, borough |-> <<"V">>]

InitialCaches ==
    {EmptyDict, DictSet(EmptyDict, NameA, CachedAddress),
     DictSet(EmptyDict, NameParcA, CachedAddress)}

Raise == [kind |-> "raise"]

OsmList(items) == [kind |-> "json", body |-> "list", items |-> items]

OsmItems ==
    { [display_name |-> <<"o">>, lat |-> <<"4", "5">>, lon |-> <<"7", "3">>,
       address |-> [borough |-> <<"W">>]],
      [display_name |-> <<"p">>, lat |-> Num(<<"4", "6">>), address |-> EmptyDict],
      EmptyDict }

OsmResponses == {Raise, OsmList(<<>>)} \cup {OsmList(<<item>>) : item \in OsmItems}

GoogleJson(status, results) == [kind |-> "json", status |-> status, results |-> results]

GoogleResult ==
    [formatted_address |-> <<"g">>,
     geometry |-> [location |-> [lat |-> Num(<<"4", "5">>), lng |-> Num(<<"7", "3">>)]],
     address_components |->
        << [long_name |-> <<"M">>, types |-> {"locality"}],
           [long_name |-> <<"S">>, types |-> {"sublocality", "political"}] >>]

\* a result without "geometry"
GoogleBrokenResult == [formatted_address |-> <<"g">>]

GoogleResponses ==
    { Raise,
      GoogleJson("REQUEST_DENIED", <<>>),
      GoogleJson("ZERO_RESULTS", <<>>),
      GoogleJson("OK", <<GoogleResult>>),
      GoogleJson("OK", <<GoogleBrokenResult>>) }

\* query_google_maps stops at this answer (a return inside the loop)
GoogleStops(response) == GoogleDenied(response) \/ GoogleFound(response)

\* The answers to the three variants.  An answer to a request that is never
\* sent is not an input: it is fixed to the answer before it.
GoogleScripts ==
    {g \in [1..3 -> GoogleResponses] :
        \A i \in 2..3 : GoogleStops(g[i - 1]) => g[i] = g[i - 1]}

\* The answers a get_address call reads: none on a cache hit, the primary's
\* alone when it has results or when there is no key.
AnswersRead(cache, key, rink_name, osm, google) ==
    /\ CacheHit(cache, rink_name) => osm = Raise
    /\ (CacheHit(cache, rink_name) \/ OsmHasResults(osm) \/ ~Truthy(key))
          => google = [i \in 1..3 |-> Raise]

---------------------------------------------------------------------------
(* Spec: a scraper after construction, get_address called any number of times *)

NoCall == [op |-> "none"]

\* os.path.exists("montreal_rinks.xml") is False
NoFile == [exists |-> FALSE]

Init ==
    /\ existing_addresses \in InitialCaches
    /\ GOOGLE_API_KEY \in ApiKeys
    /\ call = NoCall
    /\ requests = <<>>
    /\ ret = None
    /\ pc = "ready"
    /\ text = <<>>
    /\ rinks_data = <<>>
    /\ xml_file = NoFile
    /\ soup = <<>>
    /\ rinks_needing_addresses = <<>>
    /\ lookups = <<>>

\* a call of get_address, from its first line to its return
GetAddress ==
    \E rink_name \in RinkNames, borough \in Boroughs,
       osm \in OsmResponses, google \in GoogleScripts :
        /\ pc = "ready"
        /\ AnswersRead(existing_addresses, GOOGLE_API_KEY, rink_name, osm, google)
        /\ \E r \in {GetAddressResult(existing_addresses, GOOGLE_API_KEY,
                                      rink_name, borough, osm, google)} :
               /\ call' = [op |-> "get_address", rink_name |-> rink_name,
                           borough |-> borough, cache |-> existing_addresses]
               /\ requests' = r.requests
               /\ ret' = r.ret
               /\ existing_addresses' = r.cache
        /\ pc' = "returned"
        /\ UNCHANGED <<GOOGLE_API_KEY, text, rinks_data, xml_file, soup,
                       rinks_needing_addresses, lookups>>

\* the caller takes the returned record and goes on
Resume ==
    /\ pc = "returned"
    /\ pc' = "ready"
    /\ call' = NoCall
    /\ requests' = <<>>
    /\ ret' = None
    /\ UNCHANGED <<existing_addresses, GOOGLE_API_KEY, text, rinks_data, xml_file,
                   soup, rinks_needing_addresses, lookups>>

Next == GetAddress \/ Resume

Spec == Init /\ [][Next]_vars

---------------------------------------------------------------------------
(* Properties of get_address, stated on the state a call leaves (pc = "returned") *)

AddressFields == {"display_name", "lat", "lon", "borough"}

\* the call found the name passed in among the cache's keys
Hit == pc = "returned" /\ call.rink_name \in DOMAIN call.cache

Miss == pc = "returned" /\ call.rink_name \notin DOMAIN call.cache

IsDenial(request) ==
    /\ request.provider = "google"
    /\ request.response.kind = "json"
    /\ request.response.status = "REQUEST_DENIED"

\* C1: a call for a name that is a key of the cache, for any borough, returns
\* the cached record, sends no request to either provider and leaves the
\* cache as it was.
C1_CachedNameAnsweredFromCache ==
    Hit => /\ ret = call.cache[call.rink_name]
           /\ requests = <<>>
           /\ existing_addresses = call.cache

\* a hit on the raw name "Parc A", asked with the mis-encoded borough
C1_Witness ==
    /\ Hit
    /\ call.rink_name = NameParcA
    /\ call.borough = <<"xC3", "xA9">>
    /\ ret = CachedAddress

\* C2: a call that misses the cache sends one primary request and then only
\* secondary ones; secondary requests follow only a primary answer without
\* results (or an error); there are at most three, the i-th being the i-th
\* variant (Parc + name + borough + suffix, name + borough + suffix,
\* name + suffix); none follows a variant that yields an address.
C2_ProviderCallOrder ==
    Miss =>
        LET n == Len(requests)
            name == CleanName(call.rink_name)
            boro == CleanBorough(call.borough)
            variants ==
                << ParcToken \o name \o <<",", " ">> \o boro \o RegionSuffix,
                   name \o <<",", " ">> \o boro \o RegionSuffix,
                   name \o RegionSuffix >>
        IN  /\ n >= 1
            /\ requests[1].provider = "osm"
            /\ \A i \in 2..n : requests[i].provider = "google"
            /\ n > 1 => ~OsmHasResults(requests[1].response)
            /\ n - 1 <= 3
            /\ \A i \in 2..n : requests[i].query = variants[i - 1]
            /\ \A i \in 2..n : GoogleFound(requests[i].response) => i = n

\* the primary has no result, the first variant none, the second one yields
\* the address and the third is not sent
C2_Witness ==
    /\ Miss
    /\ call.rink_name = NameParcA
    /\ Len(requests) = 3
    /\ requests[1].response = OsmList(<<>>)
    /\ requests[2].response = GoogleJson("ZERO_RESULTS", <<>>)
    /\ GoogleFound(requests[3].response)
    /\ ret = GoogleAddressData(GoogleResult)

\* C3: when a call returns a non-empty record obtained from a provider, the
\* cache maps the name the caller passed in to that record.
C3_ProviderResultCachedUnderName ==
    (pc = "returned" /\ requests # <<>> /\ ret # EmptyAddress) =>
        /\ call.rink_name \in DOMAIN existing_addresses
        /\ existing_addresses[call.rink_name] = ret

\* C4: a key that holds a non-empty record keeps that record through every
\* later call.
C4_NonEmptyEntryNeverReplaced ==
    pc = "returned" =>
        \A k \in DOMAIN call.cache :
            call.cache[k] # EmptyAddress =>
                /\ k \in DOMAIN existing_addresses
                /\ existing_addresses[k] = call.cache[k]

\* C5: every call returns a record with the four address fields, whatever the
\* providers answer; the record is the all-empty one when no request yielded
\* an address; an error of the primary is followed by the secondary's first
\* variant (when there is a key).
C5_NeverFails ==
    pc = "returned" =>
        /\ DOMAIN ret = AddressFields
        /\ (/\ Miss
            /\ ~OsmHasResults(requests[1].response)
            /\ \A i \in 2..Len(requests) : ~GoogleFound(requests[i].response))
              => ret = EmptyAddress
        /\ (Miss /\ OsmRaised(requests[1].response) /\ Truthy(GOOGLE_API_KEY))
              => /\ Len(requests) >= 2
                 /\ requests[2].provider = "google"

\* the primary raises, then the three variants end in an error, in zero
\* results and in a result without its fields
C5_Witness ==
    /\ Miss
    /\ Len(requests) = 4
    /\ requests[1].response = Raise
    /\ requests[2].response = Raise
    /\ requests[3].response = GoogleJson("ZERO_RESULTS", <<>>)
    /\ requests[4].response = GoogleJson("OK", <<GoogleBrokenResult>>)
    /\ ret = EmptyAddress

\* C6: a REQUEST_DENIED answer to any variant is the last request of the call,
\* which returns the all-empty record.
C6_DenialStopsVariants ==
    pc = "returned" =>
        \A i \in 1..Len(requests) :
            IsDenial(requests[i]) => i = Len(requests) /\ ret = EmptyAddress

\* the first variant is denied: one secondary request in all
C6_Witness ==
    /\ Miss
    /\ Len(requests) = 2
    /\ IsDenial(requests[2])
    /\ ret = EmptyAddress

\* C7: without a key, a call that misses the cache and gets nothing from the
\* primary sends no secondary request, returns the all-empty record and
\* leaves the cache as it was.
C7_NoKeyNoSecondary ==
    (Miss /\ ~Truthy(GOOGLE_API_KEY) /\ ~OsmHasResults(requests[1].response)) =>
        /\ Len(requests) = 1
        /\ ret = EmptyAddress
        /\ existing_addresses = call.cache

\* no key in the environment, the primary answers an empty list
C7_Witness ==
    /\ Miss
    /\ GOOGLE_API_KEY = None
    /\ requests = <<Request("osm", OsmQuery(CleanName(call.rink_name),
                                            CleanBorough(call.borough)), OsmList(<<>>))>>
    /\ ret = EmptyAddress

---------------------------------------------------------------------------
(* SpecNorm: the clean-up of lines 128-133 applied to a name and a borough, *)
(* and applied again to what it produced                                    *)

MaxNameTokens == 3

MaxBoroughTokens == 2

\* the pieces names are put together from
NameTokens ==
    {ParcToken, <<"P", "a", "r">>, <<"c", " ">>, <<"A">>,
     <<"xC3">>, <<"xA9">>, <<"xE9">>, <<"xB4">>}

BoroughTokens == {<<"V">>, <<"xC3">>, <<"xA9">>, <<"xE9">>, <<"xB4">>}

\* the strings made of at most n of the tokens
StringsOf(tokens, n) == {Concat(w) : w \in UNION {[1..k -> tokens] : k \in 0..n}}

\* rink_name and borough after the loop of line 128 and the replace of line 133
Clean(strings) ==
    [name |-> CleanName(strings.name), borough |-> CleanBorough(strings.borough)]

InitNorm ==
    /\ text \in {[raw |-> [name |-> n, borough |-> b]] :
                    n \in StringsOf(NameTokens, MaxNameTokens),
                    b \in StringsOf(BoroughTokens, MaxBoroughTokens)}
    /\ pc = "raw"
    /\ existing_addresses = EmptyDict
    /\ GOOGLE_API_KEY = None
    /\ call = NoCall
    /\ requests = <<>>
    /\ ret = None
    /\ rinks_data = <<>>
    /\ xml_file = NoFile
    /\ soup = <<>>
    /\ rinks_needing_addresses = <<>>
    /\ lookups = <<>>

NormUnchanged ==
    UNCHANGED <<existing_addresses, GOOGLE_API_KEY, call, requests, ret, rinks_data,
                xml_file, soup, rinks_needing_addresses, lookups>>

CleanOnce ==
    /\ pc = "raw"
    /\ text' = [raw |-> text.raw, once |-> Clean(text.raw)]
    /\ pc' = "once"
    /\ NormUnchanged

CleanAgain ==
    /\ pc = "once"
    /\ text' = [raw |-> text.raw, once |-> text.once, twice |-> Clean(text.once)]
    /\ pc' = "twice"
    /\ NormUnchanged

NextNorm == CleanOnce \/ CleanAgain

SpecNorm == InitNorm /\ [][NextNorm]_vars

\* C8: cleaning what the clean-up produced gives it back unchanged, for every
\* name and every borough.
C8_CleanIsIdempotent == pc = "twice" => text.twice = text.once

---------------------------------------------------------------------------
(* The snapshot: create_xml and load_existing_addresses *)

\* The text of an element after ET.tostring, minidom and ET.parse: an element
\* whose text is "" or None is written <tag/> and read back with text None.
ElementText(t) == IF Truthy(t) THEN t ELSE None

\* the lat and lon coordinates swapped
CoordinatesSwapped(address) == [lat |-> PyStr(address.lon), lon |-> PyStr(address.lat)]

\* the attributes of <coordinates> (lines 232-234)
Coordinates(address) == [lat |-> PyStr(address.lat), lon |-> PyStr(address.lon)]

\* the <rink> element of one rink (lines 222-239)
RinkElement(rink) ==
    [type     |-> rink.type,
     code     |-> rink.code,
     name     |-> ElementText(rink.name),
     location |-> [address     |-> ElementText(rink.address.display_name),
                   coordinates |-> Coordinates(rink.address)],
     status   |-> [k \in DOMAIN rink.status |-> ElementText(rink.status[k])]]

\* the <borough> element of one entry of rinks_data (lines 218-221)
BoroughElement(borough_data) ==
    [name  |-> borough_data.borough,
     rinks |-> [i \in 1..Len(borough_data.rinks) |-> RinkElement(borough_data.rinks[i])]]

\* create_xml(rinks_data): the document, as the tree a parser reads from it
\* (the root's "updated" attribute, the time of writing, is left out)
CreateXml(data) == [i \in 1..Len(data) |-> BoroughElement(data[i])]

RECURSIVE LoadRinks(_, _, _)
\* for rink in borough.findall(".//rink"): ... (lines 26-38)
LoadRinks(addresses, rinks, borough_name) ==
    IF rinks = <<>> THEN addresses
    ELSE LET rink     == Head(rinks)
             name     == rink.name
             location == rink.location
             address  == location.address
             coords   == location.coordinates
         IN  IF /\ "location" \in DOMAIN rink
                /\ Truthy(address) /\ Truthy(coords.lat) /\ Truthy(coords.lon)
             THEN LoadRinks(DictSet(addresses, name,
                                    [display_name |-> address,
                                     lat          |-> coords.lat,
                                     lon          |-> coords.lon,
                                     borough      |-> borough_name]),
                            Tail(rinks), borough_name)
             ELSE LoadRinks(addresses, Tail(rinks), borough_name)

RECURSIVE LoadBoroughs(_, _)
\* for borough in root.findall(".//borough"): ... (line 25)
LoadBoroughs(addresses, boroughs) ==
    IF boroughs = <<>> THEN addresses
    ELSE LoadBoroughs(LoadRinks(addresses, Head(boroughs).rinks, Head(boroughs).name),
                      Tail(boroughs))

\* load_existing_addresses(): {} when there is no file
LoadExistingAddresses(file) ==
    IF ~file.exists THEN EmptyDict ELSE LoadBoroughs(EmptyDict, file.root)

---------------------------------------------------------------------------
(* SpecXml: a run writes its rinks_data to the snapshot and the next run    *)
(* loads the snapshot as its cache                                          *)

MaxXmlRinks == 2

\* the status cells of a row, as parse_rink_row returns them
RowStatus ==
    [open |-> <<"O">>, cleared |-> <<>>, sprayed |-> <<"N">>,
     resurfaced |-> <<"N">>, condition |-> <<"B">>]

\* the dict scrape_rinks keeps for a row
RinkData(name, address) ==
    [type |-> <<"T">>, name |-> name, code |-> <<>>, status |-> RowStatus,
     address |-> address]

\* the records a rink may carry when create_xml is called: a primary result
\* with a borough hint, one with a numeric latitude, one without longitude,
\* and the placeholder
XmlAddresses ==
    { [display_name |-> <<"o">>, lat |-> <<"4", "5">>, lon |-> <<"7", "3">>,
       borough |-> <<"W">>],
      [display_name |-> <<"p">>, lat |-> Num(<<"4", "6">>), lon |-> <<"7", "4">>,
       borough |-> <<>>],
      [display_name |-> <<"q">>, lat |-> <<"4">>, lon |-> <<>>, borough |-> <<>>],
      EmptyAddress }

XmlRows ==
    {[borough |-> b, rink |-> RinkData(n, a)] :
        b \in {<<"V">>, <<"W">>}, n \in {<<"A">>, <<"B">>}, a \in XmlAddresses}

RECURSIVE GroupRows(_)
\* rinks_data as the first pass builds it: the rows of one borough together
GroupRows(rows) ==
    IF rows = <<>> THEN <<>>
    ELSE LET rest == GroupRows(Tail(rows))
             row  == Head(rows)
         IN  IF rest # <<>> /\ rest[1].borough = row.borough
             THEN <<[borough |-> row.borough, rinks |-> <<row.rink>> \o rest[1].rinks]>>
                  \o Tail(rest)
             ELSE <<[borough |-> row.borough, rinks |-> <<row.rink>>]>> \o rest

InitXml ==
    /\ rinks_data \in {GroupRows(rows) :
                          rows \in UNION {[1..n -> XmlRows] : n \in 0..MaxXmlRinks}}
    /\ pc = "scraped"
    /\ xml_file = NoFile
    /\ existing_addresses = EmptyDict
    /\ GOOGLE_API_KEY = None
    /\ call = NoCall
    /\ requests = <<>>
    /\ ret = None
    /\ text = <<>>
    /\ soup = <<>>
    /\ rinks_needing_addresses = <<>>
    /\ lookups = <<>>

\* xml_output = create_xml(rinks_data), written to montreal_rinks.xml
WriteSnapshot ==
    /\ pc = "scraped"
    /\ xml_file' = [exists |-> TRUE, root |-> CreateXml(rinks_data)]
    /\ pc' = "written"
    /\ UNCHANGED <<existing_addresses, GOOGLE_API_KEY, call, requests, ret, text,
                   rinks_data, soup, rinks_needing_addresses, lookups>>

\* the next run: RinkScraper() loads the snapshot
LoadSnapshot ==
    /\ pc = "written"
    /\ existing_addresses' = LoadExistingAddresses(xml_file)
    /\ pc' = "loaded"
    /\ UNCHANGED <<GOOGLE_API_KEY, call, requests, ret, text, rinks_data, xml_file,
                   soup, rinks_needing_addresses, lookups>>

NextXml == WriteSnapshot \/ LoadSnapshot

SpecXml == InitXml /\ [][NextXml]_vars

\* the places <<borough entry, rink>> of the rinks of rinks_data
RinkPlaces ==
    UNION {{<<b, i>> : i \in 1..Len(rinks_data[b].rinks)} : b \in 1..Len(rinks_data)}

RinkAt(p) == rinks_data[p[1]].rinks[p[2]]

SectionOf(p) == rinks_data[p[1]].borough

\* document order
Before(p, q) == p[1] < q[1] \/ (p[1] = q[1] /\ p[2] < q[2])

\* the rink's record has a display name, a latitude and a longitude
HasPosition(p) ==
    /\ RinkAt(p).address.display_name # <<>>
    /\ RinkAt(p).address.lat # <<>>
    /\ RinkAt(p).address.lon # <<>>

\* the record the snapshot keeps of the rink at p
SnapshotRecord(p) ==
    [display_name |-> RinkAt(p).address.display_name,
     lat          |-> PyStr(RinkAt(p).address.lat),
     lon          |-> PyStr(RinkAt(p).address.lon),
     borough      |-> SectionOf(p)]

\* C9, as stated: after the round trip every rink that had a non-empty record
\* maps, under its name, to a record equal to it in all four fields.
C9_RoundTripKeepsRecord ==
    pc = "loaded" =>
        \A p \in RinkPlaces :
            RinkAt(p).address # EmptyAddress =>
                /\ RinkAt(p).name \in DOMAIN existing_addresses
                /\ existing_addresses[RinkAt(p).name] = RinkAt(p).address

\* C9, amended: after the round trip every rink with a non-empty name whose
\* record has a display name, a latitude and a longitude maps, under its
\* name, to the display name and the str() of the latitude and longitude of
\* the last such rink of that name in document order, with the name of that
\* rink's borough section as the borough field.
C9_RoundTripKeepsPosition ==
    pc = "loaded" =>
        \A p \in RinkPlaces :
            (HasPosition(p) /\ RinkAt(p).name # <<>>) =>
                \E q \in RinkPlaces :
                    /\ RinkAt(q).name = RinkAt(p).name
                    /\ HasPosition(q)
                    /\ \A r \in RinkPlaces :
                          (RinkAt(r).name = RinkAt(p).name /\ HasPosition(r))
                              => (r = q \/ Before(r, q))
                    /\ RinkAt(p).name \in DOMAIN existing_addresses
                    /\ existing_addresses[RinkAt(p).name] = SnapshotRecord(q)

\* two rinks named A in borough V, both with a position: the first with a
\* numeric latitude, the second with the borough hint W
C9_Witness ==
    /\ pc = "loaded"
    /\ Len(rinks_data) = 1
    /\ Len(rinks_data[1].rinks) = 2
    /\ SectionOf(<<1, 1>>) = <<"V">>
    /\ RinkAt(<<1, 1>>).name = <<"A">>
    /\ RinkAt(<<1, 2>>).name = <<"A">>
    /\ IsNum(RinkAt(<<1, 1>>).address.lat)
    /\ RinkAt(<<1, 2>>).address.borough = <<"W">>
    /\ existing_addresses[<<"A">>] =
          [display_name |-> <<"o">>, lat |-> <<"4", "5">>, lon |-> <<"7", "3">>,
           borough |-> <<"V">>]

---------------------------------------------------------------------------
(* scrape_rinks *)

\* parse_rink_row(row): None for a row without cells, else the row's dict
\* (the split of the first cell into type, name and code is not modelled: a
\* row carries its name)
HasCells(row) == row.cells > 0

ParseRinkRow(row) ==
    [type |-> <<"T">>, name |-> row.name, code |-> <<>>, status |-> RowStatus]

\* the dict with its "address" entry set (lines 282-283, line 303)
WithAddress(rink, address) ==
    [type |-> rink.type, name |-> rink.name, code |-> rink.code,
     status |-> rink.status, address |-> address]

\* rinks_data.append({"borough": current_borough, "rinks": current_rinks})
\* under if current_borough:
CloseBorough(st) ==
    IF Truthy(st.current_borough)
    THEN [st EXCEPT !.rinks_data =
                Append(@, [borough |-> st.current_borough, rinks |-> st.current_rinks])]
    ELSE st

RECURSIVE TableRows(_, _, _)
\* for row in element.find_all('tr'): ... (lines 272-284)
TableRows(st, rows, cache) ==
    IF rows = <<>> THEN st
    ELSE LET row  == Head(rows)
             name == row.name
             need == IF name \notin DOMAIN cache
                     THEN Append(st.needing, <<name, st.current_borough>>)
                     ELSE st.needing
             rink == WithAddress(ParseRinkRow(row), DictGet(cache, name, EmptyAddress))
         IN  IF HasCells(row)
             THEN TableRows([st EXCEPT !.needing = need,
                                       !.current_rinks = Append(@, rink)],
                            Tail(rows), cache)
             ELSE TableRows(st, Tail(rows), cache)

RECURSIVE FirstPassLoop(_, _, _)
\* for element in soup.find_all(['h2', 'table']): ... (lines 258-284)
FirstPassLoop(st, elements, cache) ==
    IF elements = <<>> THEN st
    ELSE LET element == Head(elements)
         IN  IF element.tag = "h2"
             THEN FirstPassLoop([CloseBorough(st) EXCEPT !.current_borough = element.text,
                                                         !.current_rinks = <<>>],
                                Tail(elements), cache)
             ELSE IF element.tag = "table" /\ Truthy(st.current_borough)
             THEN FirstPassLoop(TableRows(st, element.rows, cache), Tail(elements), cache)
             ELSE FirstPassLoop(st, Tail(elements), cache)

\* the first pass and the append of the last borough (lines 252-291)
FirstPassResult(elements, cache) ==
    CloseBorough(FirstPassLoop([rinks_data |-> <<>>, current_borough |-> None,
                                current_rinks |-> <<>>, needing |-> <<>>],
                               elements, cache))

\* only the first rink of that name is given the address
PatchFirstOnly(data, rink_name, address) ==
    LET hits  == {p \in UNION {{<<b, i>> : i \in 1..Len(data[b].rinks)} : b \in 1..Len(data)} :
                     data[p[1]].rinks[p[2]].name = rink_name}
        first == {p \in hits : \A q \in hits : q = p \/ q[1] > p[1]
                                               \/ (q[1] = p[1] /\ q[2] > p[2])}
    IN  [b \in 1..Len(data) |->
            [borough |-> data[b].borough,
             rinks   |-> [i \in 1..Len(data[b].rinks) |->
                            IF <<b, i>> \in first
                            THEN WithAddress(data[b].rinks[i], address)
                            ELSE data[b].rinks[i]]]]

\* for borough_data in rinks_data: for rink in borough_data["rinks"]:
\*     if rink["name"] == rink_name: rink["address"] = address
Patch(data, rink_name, address) ==
    [b \in 1..Len(data) |->
        [borough |-> data[b].borough,
         rinks   |-> [i \in 1..Len(data[b].rinks) |->
                        IF data[b].rinks[i].name = rink_name
                        THEN WithAddress(data[b].rinks[i], address)
                        ELSE data[b].rinks[i]]]]

---------------------------------------------------------------------------
(* SpecScrape: one run of scrape_rinks over a listing *)

MaxListingRows == 2

\* a row with its six cells, and a row without cells
ListingRows ==
    {[cells |-> 6, name |-> n] : n \in {NameA, NameParcA}} \cup {[cells |-> 0]}

RECURSIVE SoupOf(_)
\* the h2 and table elements of a listing whose rows are given with their
\* borough: an h2 and a table for each run of rows of one borough
SoupOf(rows) ==
    IF rows = <<>> THEN <<>>
    ELSE LET rest == SoupOf(Tail(rows))
             head == Head(rows)
         IN  IF rest # <<>> /\ rest[1].text = head.borough
             THEN <<rest[1], [tag |-> "table", rows |-> <<head.row>> \o rest[2].rows]>>
                  \o SubSeq(rest, 3, Len(rest))
             ELSE <<[tag |-> "h2", text |-> head.borough],
                    [tag |-> "table", rows |-> <<head.row>>]>> \o rest

\* a table that comes before the first h2
OrphanTable == <<[tag |-> "table", rows |-> <<[cells |-> 6, name |-> NameA]>>]>>

Listings ==
    {lead \o SoupOf(rows) :
        lead \in {<<>>, OrphanTable},
        rows \in UNION {[1..n -> [borough : {<<"V">>, <<"W">>}, row : ListingRows]] :
                           n \in 0..MaxListingRows}}

\* the providers' answers drawn on in a run: the primary raises, finds
\* nothing or finds one address; every variant raises or every variant finds
ScrapeOsmResponses ==
    {Raise, OsmList(<<>>),
     OsmList(<<[display_name |-> <<"o">>, lat |-> <<"4", "5">>, lon |-> <<"7", "3">>,
                address |-> [borough |-> <<"W">>]]>>)}

ScrapeGoogleScripts ==
    {[i \in 1..3 |-> Raise], [i \in 1..3 |-> GoogleJson("OK", <<GoogleResult>>)]}

InitScrape ==
    /\ soup \in Listings
    /\ existing_addresses \in InitialCaches
    /\ GOOGLE_API_KEY \in {None, <<"k">>}
    /\ pc = "start"
    /\ call = NoCall
    /\ requests = <<>>
    /\ ret = None
    /\ text = <<>>
    /\ rinks_data = <<>>
    /\ xml_file = NoFile
    /\ rinks_needing_addresses = <<>>
    /\ lookups = <<>>

\* lines 247-291: the listing is fetched and its rows collected
FirstPass ==
    /\ pc = "start"
    /\ \E st \in {FirstPassResult(soup, existing_addresses)} :
          /\ rinks_data' = st.rinks_data
          /\ rinks_needing_addresses' = st.needing
    /\ call' = [op |-> "scrape_rinks", cache |-> existing_addresses]
    /\ pc' = "lookup"
    /\ UNCHANGED <<existing_addresses, GOOGLE_API_KEY, requests, ret, text, xml_file,
                   soup, lookups>>

\* one turn of the loop of line 295: get_address, then the patch of rinks_data
Lookup ==
    /\ pc = "lookup"
    /\ Len(lookups) < Len(rinks_needing_addresses)
    /\ \E osm \in ScrapeOsmResponses, google \in ScrapeGoogleScripts :
          LET rink_name == rinks_needing_addresses[Len(lookups) + 1][1]
              borough   == rinks_needing_addresses[Len(lookups) + 1][2]
          IN  /\ AnswersRead(existing_addresses, GOOGLE_API_KEY, rink_name, osm, google)
              /\ \E r \in {GetAddressResult(existing_addresses, GOOGLE_API_KEY,
                                            rink_name, borough, osm, google)} :
                    /\ existing_addresses' = r.cache
                    /\ requests' = r.requests
                    /\ ret' = r.ret
                    /\ rinks_data' = Patch(rinks_data, rink_name, r.ret)
                    /\ lookups' = Append(lookups, [rink_name |-> rink_name,
                                                   borough |-> borough, ret |-> r.ret])
    /\ UNCHANGED <<GOOGLE_API_KEY, call, text, xml_file, soup,
                   rinks_needing_addresses, pc>>

\* line 306 and lines 313-314: the snapshot is built and written
Finish ==
    /\ pc = "lookup"
    /\ Len(lookups) = Len(rinks_needing_addresses)
    /\ xml_file' = [exists |-> TRUE, root |-> CreateXml(rinks_data)]
    /\ pc' = "done"
    /\ UNCHANGED <<existing_addresses, GOOGLE_API_KEY, call, requests, ret, text,
                   rinks_data, soup, rinks_needing_addresses, lookups>>

NextScrape == FirstPass \/ Lookup \/ Finish

SpecScrape == InitScrape /\ [][NextScrape]_vars

\* the second-pass calls made for a name
LookupsFor(name) == {i \in 1..Len(lookups) : lookups[i].rink_name = name}

\* C10, as stated: at the end every rink carries the cached record if its
\* name was in the cache during the first pass, otherwise the record returned
\* by a get_address call made for its name and its borough.
C10_EveryRinkResolved ==
    pc = "done" =>
        \A p \in RinkPlaces :
            IF RinkAt(p).name \in DOMAIN call.cache
            THEN RinkAt(p).address = call.cache[RinkAt(p).name]
            ELSE \E i \in LookupsFor(RinkAt(p).name) :
                    /\ lookups[i].borough = SectionOf(p)
                    /\ lookups[i].ret = RinkAt(p).address

\* C10, amended: ... otherwise the record returned by the last get_address
\* call the second pass made for its name (a call is made for its name and
\* borough, and a later call for the same name in another borough replaces
\* the record).
C10_EveryRinkResolvedByName ==
    pc = "done" =>
        \A p \in RinkPlaces :
            IF RinkAt(p).name \in DOMAIN call.cache
            THEN RinkAt(p).address = call.cache[RinkAt(p).name]
            ELSE /\ \E i \in LookupsFor(RinkAt(p).name) :
                       lookups[i].borough = SectionOf(p)
                 /\ \E i \in LookupsFor(RinkAt(p).name) :
                       /\ \A j \in LookupsFor(RinkAt(p).name) : j <= i
                       /\ lookups[i].ret = RinkAt(p).address

\* "Parc A" is listed in V and in W and is not cached: the call for V gets an
\* address from the secondary, the call for W gets nothing, and both rinks
\* end with the all-empty record
C10_Witness ==
    /\ pc = "done"
    /\ Len(rinks_data) = 2
    /\ Len(lookups) = 2
    /\ lookups[1] = [rink_name |-> NameParcA, borough |-> <<"V">>,
                     ret |-> GoogleAddressData(GoogleResult)]
    /\ lookups[2] = [rink_name |-> NameParcA, borough |-> <<"W">>, ret |-> EmptyAddress]
    /\ RinkAt(<<1, 1>>).address = EmptyAddress
    /\ RinkAt(<<2, 1>>).address = EmptyAddress

===========================================================================
